---- MODULE Spec2Model ----
(***************************************************************************)
(* Model of the interactive Wordle solver of src/main.rs: the feedback     *)
(* classifier get_bucket, the partitioner bucketize_answers/bucket_counts, *)
(* the minimax optimizer get_best_pattern, the feedback reader read_result *)
(* and the solving loop of main.                                           *)
(***************************************************************************)
EXTENDS Bags, FiniteSets, Integers, Sequences, TLC

VARIABLES
    file,       \* the lines of dictionaries/wordle.txt, as read at startup
    guesses,    \* main: guesses (the guess vocabulary)
    answers,    \* main: answers (the candidate set)
    pattern,    \* main: pattern (the guess presented in the next round)
    line,       \* the last line read_result took from stdin
    result,     \* the last value read_result / get_bucket returned
    buckets,    \* the last array bucketize_answers returned
    requests,   \* number of calls of read_result so far
    history,    \* the rounds that filtered the answers: <<pattern, line, result>>
    pc          \* position of the program

vars == <<file, guesses, answers, pattern, line, result, buckets, requests, history, pc>>

----------------------------------------------------------------------------
(* Bounds of the model *)

PoolSize == 4
MaxAnswers == 3
MaxGuesses == 2
MaxRequests == 4

----------------------------------------------------------------------------
(* Program constants *)

WORD_LEN == 5

RECURSIVE pow(_, _)
pow(b, e) == IF e = 0 THEN 1 ELSE b * pow(b, e - 1)

NUM_BUCKETS == pow(3, WORD_LEN)

FIRST_GUESS == <<"r", "a", "i", "s", "e">>

\* The default character '\0' of an unfilled position.
NUL == "NUL"

DefaultWord == [i \in 1..WORD_LEN |-> NUL]

\* The lines the dictionary file may hold; the first PoolSize are used.
Dictionary ==
    << <<"e", "e", "r", "i", "e">>,
       <<"h", "o", "u", "n", "d">>,
       <<"p", "o", "u", "n", "d">>,
       <<"o", "o", "m", "p", "h">>,
       <<"m", "o", "u", "n", "d">>,
       <<"r", "a", "i", "s", "e">>,
       <<"a", "r", "i", "s", "e">> >>

PoolLines == {Dictionary[i] : i \in 1..PoolSize}

SeqsUpTo(S, n) == UNION {[1..k -> S] : k \in 0..n}

Range(s) == {s[i] : i \in DOMAIN s}

Max(S) == CHOOSE x \in S : \A y \in S : y <= x

----------------------------------------------------------------------------
(* Word codec *)

\* A line shorter than WORD_LEN leaves the default character in the rest of
\* the word; a longer line panics at word[i], and the lines of Dictionary
\* are never longer.
string_to_word(s) == [i \in 1..WORD_LEN |-> IF i <= Len(s) THEN s[i] ELSE NUL]

word_to_string(word) == [i \in 1..WORD_LEN |-> word[i]]

read_words(lines) == [i \in 1..Len(lines) |-> string_to_word(lines[i])]

PoolWords == {string_to_word(l) : l \in PoolLines}

----------------------------------------------------------------------------
(* Feedback classifier *)

RECURSIVE collect(_, _)
collect(word, i) ==
    IF i = 0 THEN EmptyBag ELSE collect(word, i - 1) (+) SetToBag({word[i]})

contains(letters, p) == CopiesIn(p, letters)

remove(letters, p) == letters (-) SetToBag({p})

RECURSIVE get_bucket_loop(_, _, _, _, _)
get_bucket_loop(pat, answer, i, bucket, letters) ==
    IF i > WORD_LEN THEN bucket
    ELSE LET p == pat[i]
             w == answer[i]
             shl == bucket * 3
         IN  IF p = w
             THEN get_bucket_loop(pat, answer, i + 1, shl + 2, remove(letters, p))
             ELSE IF contains(letters, p) > 0
             THEN get_bucket_loop(pat, answer, i + 1, shl + 1, remove(letters, p))
             ELSE get_bucket_loop(pat, answer, i + 1, shl, letters)

get_bucket(pat, answer) ==
    get_bucket_loop(pat, answer, 1, 0, collect(answer, WORD_LEN))

----------------------------------------------------------------------------
(* Candidate partitioner *)

EMPTY_BUCKETS == [b \in 0..(NUM_BUCKETS - 1) |-> <<>>]

push_front(bs, bucket, answer) == [bs EXCEPT ![bucket] = <<answer>> \o @]

push(bs, bucket, answer) == [bs EXCEPT ![bucket] = Append(@, answer)]

RECURSIVE bucketize_loop(_, _, _, _)
bucketize_loop(ans, pat, i, bs) ==
    IF i > Len(ans) THEN bs
    ELSE bucketize_loop(ans, pat, i + 1, push(bs, get_bucket(pat, ans[i]), ans[i]))

bucketize_answers(ans, pat) == bucketize_loop(ans, pat, 1, EMPTY_BUCKETS)

RECURSIVE bucket_counts_loop(_, _, _, _)
bucket_counts_loop(ans, pat, i, counts) ==
    IF i > Len(ans) THEN counts
    ELSE bucket_counts_loop(ans, pat, i + 1,
             [counts EXCEPT ![get_bucket(pat, ans[i])] = @ + 1])

bucket_counts(ans, pat) ==
    bucket_counts_loop(ans, pat, 1, [b \in 0..(NUM_BUCKETS - 1) |-> 0])

----------------------------------------------------------------------------
(* Guess optimizer *)

zero_best_score(ans) == 0

initial_best_score(ans) == Len(ans) + 1

pattern_score_penalised(ans, pat) ==
    LET score == Max(Range(bucket_counts(ans, pat)))
    IN  IF pat \in Range(ans) THEN score + 1 ELSE score

\* A pattern among the answers has a group of at least one answer, itself,
\* so the subtraction never goes below zero.
pattern_score(ans, pat) ==
    LET score == Max(Range(bucket_counts(ans, pat)))
    IN  IF pat \in Range(ans) THEN score - 1 ELSE score

better_or_equal(score, best_score) == score <= best_score

better(score, best_score) == score < best_score

RECURSIVE best_pattern_loop(_, _, _, _, _)
best_pattern_loop(ans, gs, i, best_pattern, best_score) ==
    IF i > Len(gs) THEN best_pattern
    ELSE LET score == pattern_score(ans, gs[i])
         IN  IF better(score, best_score)
             THEN best_pattern_loop(ans, gs, i + 1, gs[i], score)
             ELSE best_pattern_loop(ans, gs, i + 1, best_pattern, best_score)

get_best_pattern(ans, gs) ==
    best_pattern_loop(ans, gs, 1, DefaultWord, initial_best_score(ans))

----------------------------------------------------------------------------
(* Feedback reader *)

Panic == -1

trit_swapped(c) == IF c = "+" THEN 2 ELSE IF c = "-" THEN 0 ELSE IF c = "." THEN 1 ELSE Panic

trit(c) == IF c = "+" THEN 2 ELSE IF c = "-" THEN 1 ELSE IF c = "." THEN 0 ELSE Panic

RECURSIVE read_result_loop(_, _, _)
read_result_loop(ln, i, bucket) ==
    IF i > Len(ln) THEN bucket
    ELSE IF trit(ln[i]) = Panic THEN Panic
    ELSE read_result_loop(ln, i + 1, bucket * 3 + trit(ln[i]))

read_result(ln) == read_result_loop(ln, 1, 0)

\* The line a user types to report the feedback code c: one of + - . per position.
RECURSIVE ResultLine(_, _)
ResultLine(c, n) ==
    IF n = 0 THEN <<>>
    ELSE Append(ResultLine(c \div 3, n - 1),
                IF c % 3 = 2 THEN "+" ELSE IF c % 3 = 1 THEN "-" ELSE ".")

\* Lines a user may type that report no word of the dictionary.
OtherLines ==
    { <<>>,
      <<"+">>,
      <<"+", "+", "+", "+", "+">>,
      <<".", ".", ".", ".", ".", ".">>,
      <<"+", ".", ".", ".", ".", ".">>,
      <<"+", "+", "x", "+", "+">> }

FeedbackLines(pat) ==
    {ResultLine(get_bucket(pat, w), WORD_LEN) : w \in PoolWords} \cup OtherLines

----------------------------------------------------------------------------
(* Solving session: main *)

Init ==
    /\ file \in SeqsUpTo(PoolLines, MaxAnswers)
    /\ answers = read_words(file)
    /\ guesses = read_words(file)
    /\ pattern = FIRST_GUESS
    /\ line = <<>>
    /\ result = 0
    /\ buckets = EMPTY_BUCKETS
    /\ requests = 0
    /\ history = <<>>
    /\ pc = "Active"

skewed_answers(bs, r) == bs[(r + 1) % NUM_BUCKETS]

next_answers(bs, r) == bs[r]

outcome_never_solved(ans) ==
    IF ans = <<>> THEN "Exhausted" ELSE "Active"

outcome(ans) ==
    IF ans = <<>> THEN "Exhausted"
    ELSE IF Len(ans) = 1 THEN "Solved"
    ELSE "Active"

\* One iteration of the loop of main. read_result panics on a character
\* other than + - . before it returns; a result of NUM_BUCKETS or more
\* panics at the index buckets[result].
Round ==
    /\ pc = "Active"
    /\ requests < MaxRequests
    /\ \E ln \in FeedbackLines(pattern) :
        LET r == read_result(ln)
        IN  /\ line' = ln
            /\ requests' = requests + 1
            /\ IF r = Panic
               THEN /\ pc' = "Panicked"
                    /\ UNCHANGED <<file, guesses, answers, pattern, result,
                                   buckets, history>>
               ELSE IF r >= NUM_BUCKETS
               THEN /\ pc' = "Panicked"
                    /\ result' = r
                    /\ buckets' = bucketize_answers(answers, pattern)
                    /\ UNCHANGED <<file, guesses, answers, pattern, history>>
               ELSE LET bs == bucketize_answers(answers, pattern)
                        na == next_answers(bs, r)
                    IN  /\ result' = r
                        /\ buckets' = bs
                        /\ answers' = na
                        /\ history' = Append(history, <<pattern, ln, r>>)
                        /\ pc' = outcome(na)
                        /\ pattern' = IF outcome(na) = "Active"
                                      THEN get_best_pattern(na, guesses)
                                      ELSE pattern
                        /\ UNCHANGED <<file, guesses>>

Next == Round

Spec == Init /\ [][Next]_vars

----------------------------------------------------------------------------
(* The partitioner on its own: get_bucket and bucketize_answers applied to  *)
(* any candidate list and any pattern of the pool.                          *)

PartitionerInit ==
    /\ file = <<>>
    /\ answers \in SeqsUpTo(PoolWords, MaxAnswers)
    /\ guesses = <<>>
    /\ pattern \in PoolWords
    /\ line = <<>>
    /\ result = 0
    /\ buckets = EMPTY_BUCKETS
    /\ requests = 0
    /\ history = <<>>
    /\ pc = "input"

CallGetBucket ==
    /\ pc = "input"
    /\ answers # <<>>
    /\ result' = get_bucket(pattern, answers[1])
    /\ pc' = "classified"
    /\ UNCHANGED <<file, guesses, answers, pattern, line, buckets, requests, history>>

CallBucketizeAnswers ==
    /\ pc = "input"
    /\ buckets' = bucketize_answers(answers, pattern)
    /\ pc' = "bucketized"
    /\ UNCHANGED <<file, guesses, answers, pattern, line, result, requests, history>>

PartitionerNext == CallGetBucket \/ CallBucketizeAnswers

SpecPartitioner == PartitionerInit /\ [][PartitionerNext]_vars

----------------------------------------------------------------------------
(* The optimizer on its own: get_best_pattern applied to any candidate list *)
(* and any guess vocabulary of the pool.                                    *)

OptimizerInit ==
    /\ file = <<>>
    /\ answers \in SeqsUpTo(PoolWords, MaxAnswers)
    /\ guesses \in SeqsUpTo(PoolWords, MaxGuesses)
    /\ pattern = DefaultWord
    /\ line = <<>>
    /\ result = 0
    /\ buckets = EMPTY_BUCKETS
    /\ requests = 0
    /\ history = <<>>
    /\ pc = "input"

CallGetBestPattern ==
    /\ pc = "input"
    /\ pattern' = get_best_pattern(answers, guesses)
    /\ pc' = "chosen"
    /\ UNCHANGED <<file, guesses, answers, line, result, buckets, requests, history>>

OptimizerNext == CallGetBestPattern

SpecOptimizer == OptimizerInit /\ [][OptimizerNext]_vars

----------------------------------------------------------------------------
(* Vocabulary of the properties *)

Buckets == 0..(NUM_BUCKETS - 1)

\* The i-th base-3 digit of a feedback code, first position most significant.
Digit(code, i) == (code \div pow(3, WORD_LEN - i)) % 3

Occurrences(word, c) == Cardinality({i \in 1..WORD_LEN : word[i] = c})

\* The game's feedback: exact matches take their letters first, then the
\* remaining positions are served left to right from the letters left over.
RECURSIVE Unmatched(_, _, _)
Unmatched(g, a, i) ==
    IF i = 0 THEN EmptyBag
    ELSE IF g[i] = a[i] THEN Unmatched(g, a, i - 1)
    ELSE Unmatched(g, a, i - 1) (+) SetToBag({a[i]})

RECURSIVE GamePass(_, _, _, _, _)
GamePass(g, a, i, code, bag) ==
    IF i > WORD_LEN THEN code
    ELSE IF g[i] = a[i] THEN GamePass(g, a, i + 1, code * 3 + 2, bag)
    ELSE IF CopiesIn(g[i], bag) > 0
    THEN GamePass(g, a, i + 1, code * 3 + 1, bag (-) SetToBag({g[i]}))
    ELSE GamePass(g, a, i + 1, code * 3, bag)

GameFeedback(g, a) == GamePass(g, a, 1, 0, Unmatched(g, a, WORD_LEN))

\* The codes of the candidates against guess g, in candidate order.
RECURSIVE Codes(_, _, _)
Codes(ans, g, n) ==
    IF n = 0 THEN <<>> ELSE Append(Codes(ans, g, n - 1), get_bucket(g, ans[n]))

LargestIn(codes) ==
    Max({0} \cup {Cardinality({j \in DOMAIN codes : codes[j] = codes[i]}) :
                     i \in DOMAIN codes})

\* Size of the largest group of candidates sharing a code, counted directly.
LargestGroup(ans, g) == LargestIn(Codes(ans, g, Len(ans)))

AdjustedScore(ans, g) ==
    IF g \in Range(ans) THEN LargestGroup(ans, g) - 1 ELSE LargestGroup(ans, g)

\* The adjusted scores, and the largest groups, of the first n vocabulary words.
RECURSIVE AdjustedScores(_, _, _)
AdjustedScores(ans, gs, n) ==
    IF n = 0 THEN <<>>
    ELSE Append(AdjustedScores(ans, gs, n - 1), AdjustedScore(ans, gs[n]))

RECURSIVE LargestGroups(_, _, _)
LargestGroups(ans, gs, n) ==
    IF n = 0 THEN <<>>
    ELSE Append(LargestGroups(ans, gs, n - 1), LargestGroup(ans, gs[n]))

FirstMinimum(scores, k) ==
    /\ \A j \in DOMAIN scores : scores[k] <= scores[j]
    /\ \A j \in 1..(k - 1) : scores[j] > scores[k]

RECURSIVE IsSubList(_, _)
IsSubList(s, t) ==
    IF s = <<>> THEN TRUE
    ELSE IF t = <<>> THEN FALSE
    ELSE IF Head(s) = Head(t) THEN IsSubList(Tail(s), Tail(t))
    ELSE IsSubList(s, Tail(t))

Distinct(s) == \A i, j \in 1..Len(s) : s[i] = s[j] => i = j

Vocabulary == read_words(file)

WellFormedLine(ln) == Len(ln) = WORD_LEN /\ \A i \in 1..Len(ln) : ln[i] \in {"+", "-", "."}

\* The line that reports the feedback of guess g against answer a.
Reported(g, a) == ResultLine(get_bucket(g, a), WORD_LEN)

\* Word a is consistent with every feedback line observed so far.
ConsistentWithAll(a) ==
    /\ \A i \in 1..Len(history) : history[i][2] = Reported(history[i][1], a)
    /\ pc = "Panicked" => line = Reported(pattern, a)

----------------------------------------------------------------------------
(* C1 *)

\* C1: get_bucket(g, a) is the game's feedback for every guess and answer,
\* and for each letter the positions of g marked 1 or 2 for it are at most
\* the occurrences of the letter in a.
C1_GetBucketIsGameFeedback ==
    pc = "classified" =>
        /\ result = GameFeedback(pattern, answers[1])
        /\ \A c \in Range(pattern) :
               Cardinality({i \in 1..WORD_LEN :
                               pattern[i] = c /\ Digit(result, i) \in {1, 2}})
                   <= Occurrences(answers[1], c)

----------------------------------------------------------------------------
(* C2 *)

\* C2: bucketize_answers returns NUM_BUCKETS groups; the group of code c is
\* exactly the sub-list of the candidates whose get_bucket is c, in input
\* order, so every candidate position lies in exactly one group.
C2_BucketsPartition ==
    pc = "bucketized" =>
        /\ DOMAIN buckets = Buckets
        /\ \A c \in Buckets :
               buckets[c] = SelectSeq(answers, LAMBDA w : get_bucket(pattern, w) = c)
        /\ \A i \in 1..Len(answers) :
               Cardinality({c \in Buckets : answers[i] \in Range(buckets[c])}) = 1

C2_Witness ==
    /\ pc = "bucketized"
    /\ Len(answers) = 3
    /\ \E c \in Buckets : Len(buckets[c]) = 2 /\ buckets[c][1] # buckets[c][2]

----------------------------------------------------------------------------
(* C3 *)

\* C3: for a nonempty vocabulary get_best_pattern returns a vocabulary word
\* of minimum adjusted score, and the first such word in vocabulary order.
C3_BestIsFirstMinimum ==
    (pc = "chosen" /\ guesses # <<>>) =>
        \E adjusted \in {AdjustedScores(answers, guesses, Len(guesses))} :
            \E k \in 1..Len(guesses) :
                pattern = guesses[k] /\ FirstMinimum(adjusted, k)

C3_Witness ==
    /\ pc = "chosen"
    /\ Len(guesses) = 2
    /\ guesses[1] # guesses[2]
    /\ AdjustedScore(answers, guesses[1]) = AdjustedScore(answers, guesses[2])
    /\ pattern = guesses[1]
    /\ Len(answers) >= 2

----------------------------------------------------------------------------
(* C4 *)

FilteredByHistory ==
    SelectSeq(Vocabulary,
              LAMBDA w : \A i \in 1..Len(history) :
                             get_bucket(history[i][1], w) = history[i][3])

\* C4: the candidate set is always the sub-list of the initial vocabulary of
\* the words whose get_bucket against each round's guess is that round's
\* code; each round leaves a sub-list of the previous candidates, and the
\* guess vocabulary never changes.
C4_CandidatesAreFilteredVocabulary ==
    /\ [](answers = FilteredByHistory /\ guesses = Vocabulary)
    /\ [][IsSubList(answers', answers) /\ guesses' = guesses]_vars

C4_Witness ==
    /\ Len(history) = 2
    /\ Len(answers) = 2
    /\ Len(guesses) = 3

----------------------------------------------------------------------------
(* C5 *)

\* C5 as stated: a vocabulary word consistent with every observed feedback
\* stays a candidate, the session is then never Exhausted and ends only in
\* Solved of that word; and Exhausted is reached only when some single
\* observed feedback is inconsistent with every vocabulary word.
C5_ExhaustedOnlyOnImpossibleFeedback ==
    /\ \A a \in Range(Vocabulary) :
           ConsistentWithAll(a) =>
               /\ a \in Range(answers)
               /\ pc \notin {"Exhausted", "Panicked"}
               /\ pc = "Solved" => answers = <<a>>
    /\ pc = "Exhausted" =>
           \E i \in 1..Len(history) :
               \A a \in Range(Vocabulary) : history[i][2] # Reported(history[i][1], a)

\* C5 amended: a vocabulary word consistent with every observed feedback
\* stays a candidate, the session is then never Exhausted and ends only in
\* Solved of that word; Exhausted is reached only when no vocabulary word is
\* consistent with all the observed feedback taken together.
C5_ConsistentWordSurvives ==
    /\ \A a \in Range(Vocabulary) :
           ConsistentWithAll(a) =>
               /\ a \in Range(answers)
               /\ pc \notin {"Exhausted", "Panicked"}
               /\ pc = "Solved" => answers = <<a>>
    /\ pc = "Exhausted" => \A a \in Range(Vocabulary) : ~ConsistentWithAll(a)

C5_Witness ==
    /\ pc = "Solved"
    /\ Len(history) >= 2
    /\ Len(guesses) = 3
    /\ \E a \in Range(Vocabulary) : ConsistentWithAll(a)

----------------------------------------------------------------------------
(* C6 *)

\* C6: after a round the session is Exhausted exactly when the filtered
\* candidate set is empty and Solved exactly when it has one member, and
\* from Solved or Exhausted no feedback is requested, no guess is computed
\* and the candidate set does not change.
C6_TerminationIsFinal ==
    /\ []((requests > 0 /\ pc # "Panicked") =>
              /\ pc = "Exhausted" <=> answers = <<>>
              /\ pc = "Solved" <=> Len(answers) = 1)
    /\ [][(pc \in {"Solved", "Exhausted"}) =>
              (requests' = requests /\ answers' = answers /\ pattern' = pattern /\ pc' = pc)]_vars

C6_Witness ==
    /\ pc = "Exhausted"
    /\ Len(history) >= 2
    /\ answers = <<>>

----------------------------------------------------------------------------
(* C7 *)

\* C7: only a line of exactly WORD_LEN characters of + - . yields a code
\* that filters the candidates; any other line fails.
C7_OnlyWellFormedLinesFilter ==
    \A i \in 1..Len(history) :
        /\ WellFormedLine(history[i][2])
        /\ history[i][3] \in Buckets

----------------------------------------------------------------------------
(* C8 *)

\* C8: with an empty vocabulary the session fails at startup: no guess is
\* presented and no feedback is requested.
C8_EmptyVocabularyFailsAtStartup ==
    Vocabulary = <<>> => requests = 0

----------------------------------------------------------------------------
(* C9 *)

\* C9 as stated: the largest group of the returned guess is never strictly
\* larger than the largest group of another vocabulary word.
C9_NeverWorseUnadjusted ==
    pc = "chosen" =>
        \E returned \in {LargestGroup(answers, pattern)} :
            \A largest \in Range(LargestGroups(answers, guesses, Len(guesses))) :
                returned <= largest

\* C9 amended: the largest group of the returned guess exceeds the largest
\* group of another vocabulary word by at most one, and exceeds it only when
\* the returned guess is itself a candidate.
C9_WorseByAtMostOne ==
    pc = "chosen" =>
        \E returned \in {LargestGroup(answers, pattern)} :
            \A largest \in Range(LargestGroups(answers, guesses, Len(guesses))) :
                /\ returned <= largest + 1
                /\ returned > largest => pattern \in Range(answers)

C9_Witness ==
    /\ pc = "chosen"
    /\ pattern \in Range(answers)
    /\ \E j \in 1..Len(guesses) :
           LargestGroup(answers, pattern) = LargestGroup(answers, guesses[j]) + 1

----------------------------------------------------------------------------
(* C10 *)

\* C10: with a vocabulary of pairwise distinct words the session is still
\* asking for feedback only while fewer than max(1, |vocabulary|) requests
\* were made, and every round after the first that filters the candidates
\* leaves strictly fewer of them.
C10_DistinctVocabularyTerminates ==
    /\ []((Distinct(Vocabulary) /\ pc = "Active") =>
              requests < Max({1, Len(Vocabulary)}))
    /\ [][(Distinct(Vocabulary) /\ requests >= 1 /\ pc' # "Panicked") =>
              Len(answers') < Len(answers)]_vars

C10_Witness ==
    /\ Distinct(Vocabulary)
    /\ Len(Vocabulary) >= 2
    /\ requests = Len(Vocabulary)
    /\ Len(history) = requests
    /\ pc = "Solved"

====
